---- MODULE Spec2Model ----
(***************************************************************************)
(* Model of futures-locks' Mutex (src/src/mutex.rs): the MutexData         *)
(* bookkeeping (owned flag, FIFO of oneshot senders), the MutexFut state   *)
(* machine (poll, cancellation-safe drop), MutexGuard (RAII unlock) and    *)
(* the Arc-counted handle (clone, try_unwrap, get_mut).                    *)
(* The shared/exclusive lock (RwLock), of which the sources hold only the  *)
(* benchmarks, is modelled from its specification in the second part.      *)
(*                                                                         *)
(* Every operation of the source runs its LockCore part inside one         *)
(* sync::Mutex critical section, so each is one atomic action.  A panic    *)
(* raised while that critical section is held poisons the sync::Mutex;     *)
(* every later `.expect("sync::Mutex::lock")` then panics as well.         *)
(*                                                                         *)
(* The oneshot channel is futures 0.1 `futures::sync::oneshot`: it is      *)
(* modelled by its two flags, `complete` (receiver closed or sender gone)  *)
(* and `data` (a value sits in the slot).                                  *)
(***************************************************************************)
EXTENDS Integers, Sequences, FiniteSets, TLC

\* Number of lock() calls in one behaviour (each creates one MutexFut).
MaxFuts == 3
\* Number of user-held clones of the Mutex handle.
MaxHandles == 2
\* The payload T ranges over 0..MaxVal.
MaxVal == 1

\* Number of read()/write() calls on the RwLock in one behaviour.
MaxRwFuts == 3
\* Cap on active_readers (a u32 in the program).
MaxReaders == 3

\* Number of MutexGuard values that can exist when completed futures are
\* polled again.
MaxGuards == 2

FutIds == 1..MaxFuts
Values == 0..MaxVal
RwIds == 1..MaxRwFuts

VARIABLES
    owned,      \* MutexData.owned
    waiters,    \* MutexData.waiters: FIFO of senders, each named by its future
    poisoned,   \* the poison flag of Inner.mutex (a sync::Mutex)
    data,       \* Inner.data, the protected value
    handles,    \* number of Mutex handles held by users
    nfut,       \* number of MutexFut created so far
    fut,        \* fut[f]: the MutexFut made by the f-th lock() call
    chan,       \* chan[f]: the oneshot channel of future f
    nguards,    \* number of MutexGuard values that exist
    panics,     \* the panic sites that have been hit so far
    ret,        \* the last operation and what it returned
    expected,   \* the value the payload must hold: the initial value with
                \* every write applied, and whether a guard wrote last
    \* RwLock
    active_readers, \* LockCore.active_readers
    writer_active,  \* LockCore.writer_active
    rw_waiters,     \* LockCore.waiters: FIFO of intents, named by their future
    rw_fut,         \* rw_fut[f]: the AcquireFuture of the f-th read()/write()
    rw_nfut,        \* number of RwLock futures created so far
    read_guards,    \* number of shared Guards that exist
    write_guards,   \* number of exclusive Guards that exist
    rw_ret          \* the last RwLock operation and what it returned

mutexvars == <<owned, waiters, poisoned, data, handles, nfut, fut, chan,
               nguards, panics, ret, expected>>

rwvars == <<active_readers, writer_active, rw_waiters, rw_fut, rw_nfut,
            read_guards, write_guards, rw_ret>>

vars == <<mutexvars, rwvars>>

----------------------------------------------------------------------------
(* oneshot channel (futures 0.1), as used at mutex.rs:229, 55, 59, 92, 271 *)

\* oneshot::channel(): nothing sent, nothing closed.
channel == [complete |-> FALSE, data |-> FALSE]

\* The channel slot of a future that has no receiver.
NoChannel == [complete |-> FALSE, data |-> FALSE]

\* A sender that is dropped without its value being stored.
send_lost(c) == [ok |-> TRUE, c |-> [complete |-> TRUE, data |-> FALSE]]

\* Sender::send consumes the sender.  It fails when the receiver was closed
\* (complete already set); otherwise the value is stored and the sender is
\* dropped, which sets complete.
send(c) ==
    IF c.complete
    THEN [ok |-> FALSE, c |-> c]
    ELSE [ok |-> TRUE, c |-> [complete |-> TRUE, data |-> TRUE]]

\* Receiver::close
close(c) == [c EXCEPT !.complete = TRUE]

\* Receiver::poll: the outcome, and the channel afterwards (Ready takes the
\* value out of the slot).
recv(c) ==
    IF c.complete
    THEN IF c.data
         THEN [res |-> "Ready", c |-> [c EXCEPT !.data = FALSE]]
         ELSE [res |-> "Canceled", c |-> c]
    ELSE [res |-> "NotReady", c |-> c]

----------------------------------------------------------------------------
(* MutexData and unlock *)

\* The part of the state unlock() works on.
MD == [owned |-> owned, waiters |-> waiters, chan |-> chan,
       poisoned |-> poisoned, panics |-> panics, out |-> "none"]

SetMD(m) ==
    /\ owned' = m.owned
    /\ waiters' = m.waiters
    /\ chan' = m.chan
    /\ poisoned' = m.poisoned
    /\ panics' = m.panics

\* A queue that grows at the front.
push_front(q, x) == <<x>> \o q

\* VecDeque::push_back
push_back(q, x) == Append(q, x)

\* A handoff that also clears the flag, as if every release relinquished.
handoff_and_relinquish(m) ==
    LET tx == Head(m.waiters)
        s  == send(m.chan[tx])
    IN  IF s.ok
        THEN [m EXCEPT !.waiters = Tail(@), !.chan[tx] = s.c,
                       !.owned = FALSE, !.out = "sent"]
        ELSE [m EXCEPT !.waiters = Tail(@), !.poisoned = TRUE,
                       !.panics = @ \cup {"Sender::send"}, !.out = "panic"]

\* Mutex::unlock, a waiter is queued: pop the front sender and send ownership
\* to it.  `.expect("Sender::send")` panics when the send fails, with the
\* sync::Mutex held, so the panic poisons it.  `out` records the branch taken.
handoff(m) ==
    LET tx == Head(m.waiters)
        s  == send(m.chan[tx])
    IN  IF s.ok
        THEN [m EXCEPT !.waiters = Tail(@), !.chan[tx] = s.c, !.out = "sent"]
        ELSE [m EXCEPT !.waiters = Tail(@), !.poisoned = TRUE,
                       !.panics = @ \cup {"Sender::send"}, !.out = "panic"]

\* A release that forgets to clear the flag.
relinquish_forgotten(m) == [m EXCEPT !.out = "released"]

\* Mutex::unlock, no waiter is queued: relinquish ownership.
relinquish(m) == [m EXCEPT !.owned = FALSE, !.out = "released"]

\* A release that clears the flag without looking at the queue.
unlock_ignoring_waiters(m) ==
    IF m.poisoned
    THEN [m EXCEPT !.panics = @ \cup {"sync::Mutex::lock"}, !.out = "panic"]
    ELSE IF ~m.owned
    THEN [m EXCEPT !.poisoned = TRUE, !.panics = @ \cup {"assert_owned"},
                   !.out = "panic"]
    ELSE relinquish(m)

\* Mutex::unlock
unlock(m) ==
    IF m.poisoned
    THEN [m EXCEPT !.panics = @ \cup {"sync::Mutex::lock"}, !.out = "panic"]
    ELSE IF ~m.owned
    THEN [m EXCEPT !.poisoned = TRUE, !.panics = @ \cup {"assert_owned"},
                   !.out = "panic"]
    ELSE IF m.waiters # <<>>
    THEN handoff(m)
    ELSE relinquish(m)

----------------------------------------------------------------------------
(* Arc *)

LiveFuts == {f \in FutIds : fut[f].st = "live"}

\* A count that misses the clones held by guards.
RefCount_without_guards == handles + Cardinality(LiveFuts)

\* Arc::strong_count: every handle, MutexFut and MutexGuard holds one clone.
RefCount == handles + Cardinality(LiveFuts) + nguards

Ret(op, res, val) == [op |-> op, res |-> res, val |-> val]

----------------------------------------------------------------------------
Init ==
    /\ owned = FALSE
    /\ waiters = <<>>
    /\ poisoned = FALSE
    /\ data \in Values
    /\ handles = 1
    /\ nfut = 0
    /\ fut = [f \in FutIds |-> [st |-> "none", acquired |-> FALSE,
                                receiver |-> FALSE]]
    /\ chan = [f \in FutIds |-> NoChannel]
    /\ nguards = 0
    /\ panics = {}
    /\ ret = Ret("new", "Ok", 0)
    /\ expected = [val |-> data, guard |-> FALSE]
    /\ active_readers = 0
    /\ writer_active = FALSE
    /\ rw_waiters = <<>>
    /\ rw_fut = [f \in RwIds |-> [st |-> "none", kind |-> "Reader",
                                  receiver |-> FALSE, signalled |-> FALSE,
                                  acquired |-> FALSE]]
    /\ rw_nfut = 0
    /\ read_guards = 0
    /\ write_guards = 0
    /\ rw_ret = Ret("new", "Ok", 0)

\* MutexFut::new
MutexFut_new(rx) == [st |-> "live", acquired |-> FALSE, receiver |-> rx]

\* Mutex::lock
lock ==
    /\ handles >= 1
    /\ nfut < MaxFuts
    /\ LET f == nfut + 1 IN
       IF poisoned
       THEN /\ panics' = panics \cup {"sync::Mutex::lock"}
            /\ ret' = Ret("lock", "panic", 0)
            /\ UNCHANGED <<owned, waiters, poisoned, data, handles, nfut, fut,
                           chan, nguards>>
       ELSE IF owned
       THEN /\ chan' = [chan EXCEPT ![f] = channel]
            /\ waiters' = push_back(waiters, f)
            /\ fut' = [fut EXCEPT ![f] = MutexFut_new(TRUE)]
            /\ nfut' = f
            /\ ret' = Ret("lock", "Queued", f)
            /\ UNCHANGED <<owned, poisoned, data, handles, nguards, panics>>
       ELSE /\ owned' = TRUE
            /\ fut' = [fut EXCEPT ![f] = MutexFut_new(FALSE)]
            /\ nfut' = f
            /\ ret' = Ret("lock", "Immediate", f)
            /\ UNCHANGED <<waiters, poisoned, data, handles, chan, nguards,
                           panics>>
    /\ UNCHANGED <<expected, rwvars>>

\* The position of a try_lock() call: 1 when it directly follows the drop of
\* a guard that found no waiter queued, 2 when it directly follows any other
\* guard drop, 0 otherwise.
After ==
    IF ret.op = "drop_guard"
    THEN IF ret.res = "no_waiter" THEN 1 ELSE 2
    ELSE 0

\* Mutex::try_lock
try_lock ==
    /\ handles >= 1
    /\ IF poisoned
       THEN /\ panics' = panics \cup {"sync::Mutex::lock"}
            /\ ret' = Ret("try_lock", "panic", After)
            /\ UNCHANGED <<owned, nguards>>
       ELSE IF owned
       THEN /\ ret' = Ret("try_lock", "Err", After)
            /\ UNCHANGED <<owned, nguards, panics>>
       ELSE /\ owned' = TRUE
            /\ nguards' = nguards + 1
            /\ ret' = Ret("try_lock", "Ok", After)
            /\ UNCHANGED panics
    /\ UNCHANGED <<waiters, poisoned, data, handles, nfut, fut, chan>>
    /\ UNCHANGED <<expected, rwvars>>

\* <MutexFut as Future>::poll
MutexFut_poll(f) ==
    /\ fut[f].st = "live"
    /\ IF ~fut[f].receiver
       THEN /\ fut' = [fut EXCEPT ![f].acquired = TRUE]
            /\ nguards' = nguards + 1
            /\ ret' = Ret("poll", "Ready", f)
            /\ UNCHANGED <<chan, panics>>
       ELSE LET r == recv(chan[f]) IN
            /\ chan' = [chan EXCEPT ![f] = r.c]
            /\ CASE r.res = "NotReady" ->
                      /\ ret' = Ret("poll", "NotReady", f)
                      /\ UNCHANGED <<fut, nguards, panics>>
                 [] r.res = "Canceled" ->
                      /\ panics' = panics \cup {"unreachable"}
                      /\ ret' = Ret("poll", "panic", f)
                      /\ UNCHANGED <<fut, nguards>>
                 [] r.res = "Ready" ->
                      /\ fut' = [fut EXCEPT ![f].acquired = TRUE]
                      /\ nguards' = nguards + 1
                      /\ ret' = Ret("poll", "Ready", f)
                      /\ UNCHANGED panics
    /\ UNCHANGED <<owned, waiters, poisoned, data, handles, nfut>>
    /\ UNCHANGED <<expected, rwvars>>

\* A future is polled until it yields its guard and not again.
PollOnce(f) ==
    /\ ~fut[f].acquired
    /\ MutexFut_poll(f)

\* A drop that does not look at `acquired` and releases again.
MutexFut_drop_unconditional(f) ==
    /\ fut[f].st = "live"
    /\ fut' = [fut EXCEPT ![f].st = "dropped"]
    /\ IF fut[f].receiver
       THEN LET r == recv(close(chan[f]))
                m == [MD EXCEPT !.chan[f] = r.c]
            IN  IF r.res = "Ready"
                THEN /\ SetMD(unlock(m))
                     /\ ret' = Ret("drop_fut", unlock(m).out, f)
                ELSE /\ SetMD(m)
                     /\ ret' = Ret("drop_fut", "cancelled", f)
       ELSE /\ SetMD(unlock(MD))
            /\ ret' = Ret("drop_fut", unlock(MD).out, f)
    /\ UNCHANGED <<data, handles, nfut, nguards>>
    /\ UNCHANGED <<expected, rwvars>>

\* <MutexFut as Drop>::drop
MutexFut_drop(f) ==
    /\ fut[f].st = "live"
    /\ IF fut[f].acquired
       THEN /\ fut' = [fut EXCEPT ![f].st = "dropped"]
            /\ ret' = Ret("drop_fut", "acquired", f)
            /\ UNCHANGED <<owned, waiters, chan, poisoned, panics>>
       ELSE IF fut[f].receiver
       THEN LET r == recv(close(chan[f]))
                m == [MD EXCEPT !.chan[f] = r.c]
            IN  IF r.res = "Ready"
                THEN /\ fut' = [fut EXCEPT ![f].st = "dropped"]
                     /\ SetMD(unlock(m))
                     /\ ret' = Ret("drop_fut", unlock(m).out, f)
                ELSE /\ fut' = [fut EXCEPT ![f].st = "cancelled"]
                     /\ SetMD(m)
                     /\ ret' = Ret("drop_fut", "cancelled", f)
       ELSE /\ fut' = [fut EXCEPT ![f].st = "dropped"]
            /\ SetMD(unlock(MD))
            /\ ret' = Ret("drop_fut", unlock(MD).out, f)
    /\ UNCHANGED <<data, handles, nfut, nguards>>
    /\ UNCHANGED <<expected, rwvars>>

\* <MutexGuard as Drop>::drop
MutexGuard_drop ==
    /\ nguards >= 1
    /\ nguards' = nguards - 1
    /\ SetMD(unlock(MD))
    /\ ret' = Ret("drop_guard", IF waiters = <<>> THEN "no_waiter"
                                ELSE "waiter", 0)
    /\ UNCHANGED <<data, handles, nfut, fut>>
    /\ UNCHANGED <<expected, rwvars>>

\* <MutexGuard as DerefMut>::deref_mut, followed by a write
MutexGuard_deref_mut ==
    /\ nguards >= 1
    /\ \E v \in Values :
          /\ data' = v
          /\ expected' = [val |-> v, guard |-> TRUE]
          /\ ret' = Ret("deref_mut", "Ok", v)
    /\ UNCHANGED <<owned, waiters, poisoned, handles, nfut, fut, chan,
                   nguards, panics>>
    /\ UNCHANGED rwvars

\* <Mutex as Clone>::clone
clone ==
    /\ handles >= 1
    /\ handles < MaxHandles
    /\ handles' = handles + 1
    /\ ret' = Ret("clone", "Ok", 0)
    /\ UNCHANGED <<owned, waiters, poisoned, data, nfut, fut, chan, nguards,
                   panics>>
    /\ UNCHANGED <<expected, rwvars>>

\* Dropping a Mutex handle drops its Arc.
Mutex_drop ==
    /\ handles >= 1
    /\ handles' = handles - 1
    /\ ret' = Ret("drop_handle", "Ok", 0)
    /\ UNCHANGED <<owned, waiters, poisoned, data, nfut, fut, chan, nguards,
                   panics>>
    /\ UNCHANGED <<expected, rwvars>>

\* An unwrap that hands out a default value instead of the payload.
into_inner_default(d) == 0

\* UnsafeCell::into_inner: the payload itself.
into_inner(d) == d

\* Mutex::try_unwrap
try_unwrap ==
    /\ handles >= 1
    /\ IF RefCount = 1
       THEN /\ handles' = 0
            /\ ret' = Ret("try_unwrap", "Ok", into_inner(data))
       ELSE /\ handles' = handles
            /\ ret' = Ret("try_unwrap", "Err", 0)
    /\ UNCHANGED <<owned, waiters, poisoned, data, nfut, fut, chan, nguards,
                   panics>>
    /\ UNCHANGED <<expected, rwvars>>

\* Mutex::get_mut, followed by a write through the returned reference
get_mut ==
    /\ handles >= 1
    /\ IF RefCount = 1
       THEN IF poisoned
            THEN /\ panics' = panics \cup {"get_mut unwrap"}
                 /\ ret' = Ret("get_mut", "panic", 0)
                 /\ UNCHANGED <<data, expected>>
            ELSE IF owned
            THEN /\ panics' = panics \cup {"debug_assert"}
                 /\ ret' = Ret("get_mut", "panic", 0)
                 /\ UNCHANGED <<data, expected>>
            ELSE \E v \in Values :
                    /\ data' = v
                    /\ expected' = [val |-> v, guard |-> FALSE]
                    /\ ret' = Ret("get_mut", "Some", v)
                    /\ UNCHANGED panics
       ELSE /\ ret' = Ret("get_mut", "None", 0)
            /\ UNCHANGED <<data, panics, expected>>
    /\ UNCHANGED <<owned, waiters, poisoned, handles, nfut, fut, chan,
                   nguards>>
    /\ UNCHANGED rwvars

Next ==
    \/ lock
    \/ try_lock
    \/ \E f \in FutIds : PollOnce(f)
    \/ \E f \in FutIds : MutexFut_drop(f)
    \/ MutexGuard_drop
    \/ MutexGuard_deref_mut
    \/ clone
    \/ Mutex_drop
    \/ try_unwrap
    \/ get_mut

Spec == Init /\ [][Next]_vars

\* A caller polls a future again after it has yielded its guard.
RePoll(f) ==
    /\ fut[f].acquired
    /\ nguards < MaxGuards
    /\ MutexFut_poll(f)

NextRepoll ==
    \/ Next
    \/ \E f \in FutIds : RePoll(f)

\* The program with callers that poll completed futures again.
RepollSpec == Init /\ [][NextRepoll]_vars

----------------------------------------------------------------------------
(* RwLock, the shared/exclusive variant.  Its futures are kept until they  *)
(* resolve, as the benchmarks do (join, then wait).                        *)

\* The part of the state a release works on.
RW == [readers |-> active_readers, writer |-> writer_active,
       q |-> rw_waiters, fut |-> rw_fut]

SetRW(m) ==
    /\ active_readers' = m.readers
    /\ writer_active' = m.writer
    /\ rw_waiters' = m.q
    /\ rw_fut' = m.fut

\* The number of Reader intents at the front of the queue, up to the first
\* Writer intent.
RECURSIVE LeadingReaders(_, _)
LeadingReaders(q, futs) ==
    IF q = <<>> \/ futs[Head(q)].kind = "Writer"
    THEN 0
    ELSE 1 + LeadingReaders(Tail(q), futs)

\* A grant that takes only the first Reader intent and one that also takes
\* the Writer behind the readers.
grant_through_writer(m) ==
    IF m.q = <<>>
    THEN m
    ELSE [m EXCEPT !.q = <<>>,
                   !.readers = @ + LeadingReaders(m.q, m.fut),
                   !.writer = \E i \in 1..Len(m.q) : m.fut[m.q[i]].kind = "Writer",
                   !.fut = [f \in RwIds |->
                              IF \E i \in 1..Len(m.q) : m.q[i] = f
                              THEN [m.fut[f] EXCEPT !.signalled = TRUE]
                              ELSE m.fut[f]]]

\* The lock became free: grant the next intent.  A Writer intent is granted
\* alone; a Reader intent is granted together with every Reader intent that
\* directly follows it.  The grant marks the ownership and sends the token.
grant(m) ==
    IF m.q = <<>>
    THEN m
    ELSE IF m.fut[Head(m.q)].kind = "Writer"
    THEN [m EXCEPT !.q = Tail(@), !.writer = TRUE,
                   !.fut[Head(m.q)].signalled = TRUE]
    ELSE LET n == LeadingReaders(m.q, m.fut) IN
         [m EXCEPT !.q = SubSeq(@, n + 1, Len(@)),
                   !.readers = @ + n,
                   !.fut = [f \in RwIds |->
                              IF \E i \in 1..n : m.q[i] = f
                              THEN [m.fut[f] EXCEPT !.signalled = TRUE]
                              ELSE m.fut[f]]]

\* A reader release that hands off although readers remain.
release_read_eager(m) == grant([m EXCEPT !.readers = @ - 1])

\* Release of a shared Guard: decrement active_readers, hand off only when it
\* reaches zero.
release_read(m) ==
    LET m1 == [m EXCEPT !.readers = @ - 1]
    IN  IF m1.readers = 0 THEN grant(m1) ELSE m1

\* Release of an exclusive Guard: clear writer_active, hand off always.
release_write(m) == grant([m EXCEPT !.writer = FALSE])

RwFut_new(kind, rx) ==
    [st |-> "live", kind |-> kind, receiver |-> rx, signalled |-> FALSE,
     acquired |-> FALSE]

\* read(): granted at once when no writer is active, whatever is queued.
read ==
    /\ rw_nfut < MaxRwFuts
    /\ LET f == rw_nfut + 1 IN
       /\ rw_nfut' = f
       /\ IF ~writer_active
          THEN /\ active_readers' = active_readers + 1
               /\ rw_fut' = [rw_fut EXCEPT ![f] = RwFut_new("Reader", FALSE)]
               /\ rw_ret' = Ret("read", "Immediate", f)
               /\ UNCHANGED rw_waiters
          ELSE /\ rw_waiters' = Append(rw_waiters, f)
               /\ rw_fut' = [rw_fut EXCEPT ![f] = RwFut_new("Reader", TRUE)]
               /\ rw_ret' = Ret("read", "Queued", f)
               /\ UNCHANGED active_readers
    /\ UNCHANGED <<writer_active, read_guards, write_guards>>
    /\ UNCHANGED mutexvars

\* write(): granted at once when neither a writer nor a reader is active.
write ==
    /\ rw_nfut < MaxRwFuts
    /\ LET f == rw_nfut + 1 IN
       /\ rw_nfut' = f
       /\ IF ~writer_active /\ active_readers = 0
          THEN /\ writer_active' = TRUE
               /\ rw_fut' = [rw_fut EXCEPT ![f] = RwFut_new("Writer", FALSE)]
               /\ rw_ret' = Ret("write", "Immediate", f)
               /\ UNCHANGED rw_waiters
          ELSE /\ rw_waiters' = Append(rw_waiters, f)
               /\ rw_fut' = [rw_fut EXCEPT ![f] = RwFut_new("Writer", TRUE)]
               /\ rw_ret' = Ret("write", "Queued", f)
               /\ UNCHANGED writer_active
    /\ UNCHANGED <<active_readers, read_guards, write_guards>>
    /\ UNCHANGED mutexvars

\* try_read(): a shared Guard, or WouldBlock when a writer is active.
try_read ==
    /\ active_readers < MaxReaders
    /\ IF ~writer_active
       THEN /\ active_readers' = active_readers + 1
            /\ read_guards' = read_guards + 1
            /\ rw_ret' = Ret("try_read", "Ok", 0)
       ELSE /\ rw_ret' = Ret("try_read", "WouldBlock", 0)
            /\ UNCHANGED <<active_readers, read_guards>>
    /\ UNCHANGED <<writer_active, rw_waiters, rw_fut, rw_nfut, write_guards>>
    /\ UNCHANGED mutexvars

\* try_write(): an exclusive Guard, or WouldBlock when the lock is held.
try_write ==
    /\ IF ~writer_active /\ active_readers = 0
       THEN /\ writer_active' = TRUE
            /\ write_guards' = write_guards + 1
            /\ rw_ret' = Ret("try_write", "Ok", 0)
       ELSE /\ rw_ret' = Ret("try_write", "WouldBlock", 0)
            /\ UNCHANGED <<writer_active, write_guards>>
    /\ UNCHANGED <<active_readers, rw_waiters, rw_fut, rw_nfut, read_guards>>
    /\ UNCHANGED mutexvars

\* AcquireFuture::poll of a RwLock future that has not resolved yet.
RwFut_poll(f) ==
    /\ rw_fut[f].st = "live"
    /\ ~rw_fut[f].acquired
    /\ IF ~rw_fut[f].receiver \/ rw_fut[f].signalled
       THEN /\ rw_fut' = [rw_fut EXCEPT ![f].acquired = TRUE]
            /\ IF rw_fut[f].kind = "Reader"
               THEN read_guards' = read_guards + 1 /\ UNCHANGED write_guards
               ELSE write_guards' = write_guards + 1 /\ UNCHANGED read_guards
            /\ rw_ret' = Ret("poll", "Ready", f)
       ELSE /\ rw_ret' = Ret("poll", "NotReady", f)
            /\ UNCHANGED <<rw_fut, read_guards, write_guards>>
    /\ UNCHANGED <<active_readers, writer_active, rw_waiters, rw_nfut>>
    /\ UNCHANGED mutexvars

\* Drop of a shared Guard.
ReadGuard_drop ==
    /\ read_guards >= 1
    /\ read_guards' = read_guards - 1
    /\ SetRW(release_read(RW))
    /\ rw_ret' = Ret("drop_read_guard", "Ok", active_readers - 1)
    /\ UNCHANGED <<rw_nfut, write_guards>>
    /\ UNCHANGED mutexvars

\* Drop of an exclusive Guard.
WriteGuard_drop ==
    /\ write_guards >= 1
    /\ write_guards' = write_guards - 1
    /\ SetRW(release_write(RW))
    /\ rw_ret' = Ret("drop_write_guard", "Ok", 0)
    /\ UNCHANGED <<rw_nfut, read_guards>>
    /\ UNCHANGED mutexvars

RwNext ==
    \/ read
    \/ write
    \/ try_read
    \/ try_write
    \/ \E f \in RwIds : RwFut_poll(f)
    \/ ReadGuard_drop
    \/ WriteGuard_drop

RwSpec == Init /\ [][RwNext]_vars

\* The executor polls every live future and every guard is eventually dropped.
FairSpec ==
    /\ Spec
    /\ WF_vars(MutexGuard_drop)
    /\ \A f \in FutIds : WF_vars(PollOnce(f))

----------------------------------------------------------------------------
(* Properties *)

InQueue(f) == \E i \in 1..Len(waiters) : waiters[i] = f

\* The token of future f is delivered in this step.
NewlySignalled(f) == ~chan[f].data /\ chan'[f].data

\* f is a live future that was granted the lock at lock() time and has not
\* been polled.
Immediate(f) == fut[f].st = "live" /\ ~fut[f].receiver /\ ~fut[f].acquired

\* f is a live queued future that has not yielded its guard.
Queued(f) == fut[f].st = "live" /\ fut[f].receiver /\ ~fut[f].acquired

\* The earliest queued waiter whose future still exists, 0 if there is none.
FirstLive ==
    LET idx == {i \in 1..Len(waiters) : fut[waiters[i]].st = "live"}
    IN  IF idx = {} THEN 0
        ELSE waiters[CHOOSE i \in idx : \A j \in idx : i <= j]

\* After this step the ownership that was released is with the next waiter,
\* or with nobody and the flag is clear.
PassedOn ==
    IF FirstLive # 0 THEN chan'[FirstLive].data /\ owned' ELSE ~owned'

\* C1: at most one MutexGuard exists in every reachable state.
C1_MutualExclusion == nguards <= 1

\* A guard obtained through a hand-off exists while another future waits.
C1_Witness ==
    /\ nguards = 1
    /\ \E f \in FutIds : fut[f].receiver /\ fut[f].acquired
    /\ \E g \in FutIds : Queued(g) /\ InQueue(g)

\* C2: after a queued, unsignalled future was dropped, once the holder has
\* dropped its guard and nobody else holds or waits for the lock, the lock
\* can be acquired: it is neither owned nor unusable.
C2_CancelSafe ==
    ( /\ \E f \in FutIds : fut[f].st = "cancelled"
      /\ ret.op = "drop_guard"
      /\ nguards = 0
      /\ LiveFuts = {} )
    => (~owned /\ ~poisoned)

\* C3: dropping a queued future that holds an unobserved token passes the
\* ownership on: the next waiter is signalled, or owned becomes false.
C3_RaceOnDrop ==
    [][\A f \in FutIds :
          (Queued(f) /\ chan[f].data /\ fut'[f].st # "live") => PassedOn]_vars

\* C4: dropping an immediately granted, never polled future passes the
\* ownership on: the next waiter is signalled, or owned becomes false.
C4_ImmediateDrop ==
    [][\A f \in FutIds :
          (Immediate(f) /\ fut'[f].st # "live") => PassedOn]_vars

C6_EventualSuccess ==
    \A f \in FutIds :
        (fut[f].st = "live") ~> (fut[f].acquired \/ fut[f].st # "live")

\* C7: try_lock returns a guard exactly when owned is false, setting owned;
\* when owned is true it returns Err(()) and changes neither owned nor the
\* queue.
C7_TryLock ==
    [][(ret'.op = "try_lock") =>
          /\ (ret'.res = "Ok") <=> ~owned
          /\ (ret'.res = "Ok") => (owned' /\ nguards' = nguards + 1)
          /\ owned => /\ ret'.res = "Err"
                      /\ owned' /\ waiters' = waiters /\ nguards' = nguards
      ]_vars

C9_TryUnwrap ==
    [][(ret'.op = "try_unwrap") =>
          /\ (ret'.res = "Ok") <=>
                (handles = 1 /\ nguards = 0 /\ LiveFuts = {})
          /\ (ret'.res = "Ok") => ret'.val = data
          /\ (ret'.res # "Ok") =>
                /\ ret'.res = "Err"
                /\ UNCHANGED <<owned, waiters, poisoned, data, handles, nfut,
                               fut, chan, nguards, panics>>
      ]_vars

\* try_unwrap on the only handle failed because a guard holds a clone.
C9_Witness ==
    /\ ret.op = "try_unwrap" /\ ret.res = "Err"
    /\ handles = 1 /\ nguards = 1 /\ LiveFuts = {}

\* C10: when a handle is the only reference (the reference count is 1, so
\* get_mut returns Some and try_unwrap returns Ok), the lock is not owned and
\* nobody is queued.
C10_SoleRefUnlocked ==
    (handles = 1 /\ RefCount = 1) => (~owned /\ waiters = <<>>)

Holders ==
    nguards
    + Cardinality({f \in FutIds : Queued(f) /\ chan[f].data})
    + Cardinality({f \in FutIds : Immediate(f)})

\* C14: owned is true iff a guard exists or ownership was granted to a future
\* (token sent, or granted at lock() time) that has neither observed nor
\* released it.
C14_OwnedIffHeld == owned <=> (Holders >= 1)

\* C15: no barging: whenever owned is false the waiter queue is empty, so an
\* immediate grant by lock() or try_lock() happens only with an empty queue.
C15_NoBarging ==
    /\ ~owned => waiters = <<>>
    /\ ( \/ (ret.op = "lock" /\ ret.res = "Immediate")
         \/ (ret.op = "try_lock" /\ ret.res = "Ok") ) => waiters = <<>>

\* lock() was granted immediately after an earlier future had been queued
\* and served.
C15_Witness ==
    /\ ret.op = "lock" /\ ret.res = "Immediate"
    /\ \E f \in FutIds : fut[f].receiver /\ fut[f].acquired

\* This step ran unlock().
UnlockStep ==
    \/ ret'.op = "drop_guard"
    \/ (ret'.op = "drop_fut" /\ ret'.res \in {"sent", "released", "panic"})

\* C16: every unlock() with a non-empty queue removes exactly the front
\* entry, signals exactly that waiter and keeps owned; with an empty queue it
\* clears owned and signals nobody; nobody is signalled twice.
C16_SingleHandoff ==
    [][ /\ UnlockStep =>
             IF waiters # <<>>
             THEN /\ waiters' = Tail(waiters)
                  /\ NewlySignalled(Head(waiters))
                  /\ owned'
                  /\ \A h \in FutIds \ {Head(waiters)} : ~NewlySignalled(h)
             ELSE /\ ~owned'
                  /\ waiters' = <<>>
                  /\ \A h \in FutIds : ~NewlySignalled(h)
        /\ \A f \in FutIds : NewlySignalled(f) => ~chan[f].complete
      ]_vars

\* C17: the send in unlock() never fails: `.expect("Sender::send")` never
\* panics.
C17_SendNeverFails == "Sender::send" \notin panics

\* C18: poll never sees a receiver error: the sender of every live queued
\* future is still queued or has delivered its token, and `unreachable!()`
\* is never hit.
C18_NoReceiverError ==
    /\ "unreachable" \notin panics
    /\ \A f \in FutIds : Queued(f) =>
          /\ InQueue(f) \/ chan[f].data
          /\ recv(chan[f]).res # "Canceled"

\* A queued future was polled after its token arrived and yielded a guard.
C18_Witness ==
    /\ ret.op = "poll" /\ ret.res = "Ready"
    /\ fut[ret.val].receiver /\ fut[ret.val].acquired

\* C19: unlock() runs only while owned is true: the assertion never fails,
\* whoever may call unlock() holds an ownership that owned records, and at
\* most one such holder exists.
C19_UnlockOnlyWhenOwned ==
    /\ "assert_owned" \notin panics
    /\ Holders <= 1
    /\ (Holders = 1) => owned

\* A future yielded its guard and was dropped, then the guard was dropped
\* and released the lock.
C19_Witness ==
    /\ ret.op = "drop_guard"
    /\ ~owned
    /\ \E f \in FutIds : fut[f].st = "dropped" /\ fut[f].acquired

\* C20: a poll of a future that has already yielded its guard yields no
\* second guard.
C20_GuardAtMostOnce ==
    [][\A f \in FutIds :
          (fut[f].acquired /\ ret'.op = "poll" /\ ret'.val = f)
             => nguards' = nguards]_vars

\* A RwLock future of the given kind that was granted the lock and has not
\* yielded its guard yet.
RwGranted(f) ==
    /\ rw_fut[f].st = "live" /\ ~rw_fut[f].acquired
    /\ (~rw_fut[f].receiver \/ rw_fut[f].signalled)

\* The token of RwLock future f is delivered in this step.
RwNewlySignalled(f) == ~rw_fut[f].signalled /\ rw_fut'[f].signalled

\* C12: writer_active and active_readers > 0 are never both true, and a
\* write guard never coexists with another write guard or with a read guard.
C12_RwExclusion ==
    /\ ~(writer_active /\ active_readers > 0)
    /\ write_guards <= 1
    /\ (write_guards >= 1) => (read_guards = 0)
    /\ (write_guards >= 1) => writer_active
    /\ read_guards <= active_readers

\* A queued writer holds its guard after two readers held theirs together.
C12_Witness ==
    /\ write_guards = 1
    /\ \E w \in RwIds : /\ rw_fut[w].kind = "Writer"
                        /\ rw_fut[w].receiver /\ rw_fut[w].acquired
    /\ \E r \in RwIds : rw_fut[r].kind = "Reader" /\ rw_fut[r].acquired

\* C13: with no writer a read() is granted at once, however many read guards
\* are held; a queued write() is granted only once no read guard and no
\* granted reader is left; a reader release that leaves readers behind hands
\* nothing off.
C13_ReadersShareWriterWaits ==
    [][ /\ (rw_ret'.op = "read" /\ rw_nfut' # rw_nfut /\ ~writer_active) =>
             /\ rw_ret'.res = "Immediate"
             /\ rw_fut'[rw_nfut'].st = "live"
             /\ ~rw_fut'[rw_nfut'].receiver
             /\ active_readers' = active_readers + 1
        /\ \A w \in RwIds :
             (rw_fut[w].kind = "Writer" /\ RwNewlySignalled(w)) =>
                 /\ read_guards' = 0
                 /\ active_readers' = 0
        /\ \A w \in RwIds :
             (rw_fut'[w].kind = "Writer" /\ rw_fut'[w].st = "live"
                 /\ rw_fut'[w].receiver /\ ~rw_fut'[w].signalled
                 /\ read_guards' > 0) => ~rw_fut'[w].acquired
        /\ (read_guards' < read_guards /\ active_readers > 1) =>
             /\ rw_waiters' = rw_waiters
             /\ \A f \in RwIds : ~RwNewlySignalled(f)
      ]_vars

\* Two readers held their guards at the same time while a writer waited, and
\* the writer got its guard after both were dropped.
C13_Witness ==
    /\ \E r1, r2 \in RwIds :
          /\ r1 < r2
          /\ rw_fut[r1].kind = "Reader" /\ rw_fut[r1].acquired
          /\ rw_fut[r2].kind = "Reader" /\ rw_fut[r2].acquired
          /\ \E w \in RwIds :
                /\ r2 < w
                /\ rw_fut[w].kind = "Writer" /\ rw_fut[w].receiver
                /\ rw_fut[w].acquired
    /\ read_guards = 0
    /\ write_guards = 1

====
